---- MODULE Spec2Model ----
(***************************************************************************)
(* A model of the inventory persistence layer: the Field/Table mapping     *)
(* engine (table.go) and the Client with its two mutexes and its in-flight *)
(* transaction (client.go).                                                *)
(*                                                                         *)
(* Go strings are sequences of bytes (naturals 0..255), so that the bytes  *)
(* SetPk feeds to the hash and the JSON text Pull/Push exchange with the   *)
(* database are what the code produces.                                    *)
(***************************************************************************)
EXTENDS Integers, Sequences, FiniteSets, TLC

VARIABLES
    \* ---- Table level (sequential use of Table on one table) ----
    tbl,        \* the rows of the model's table
    last,       \* the last Table call: op, argument, returned error, model after
    prev,       \* the Table call before it
    nops,       \* number of Table calls made
    \* ---- SetPk as a function ----
    pkIn,       \* a pair of models handed to SetPk
    pkOut,      \* the pair after SetPk (or <<>> before)
    \* ---- Client level (threads, locks, transaction) ----
    pc,         \* per thread: position inside the client call
    call,       \* per thread: the call being made and its argument
    ret,        \* per thread: what the last call returned
    stateLock,  \* Client.Mutex: 0 or the thread holding it
    writerLock, \* Client.mutex: 0 or the thread that locked it
    tx,         \* Client.tx: 0 (nil) or the handle of the open sql.Tx
    nextTx,     \* the next sql.Tx handle database/sql allocates
    tokens,     \* the *Tx tokens Begin has returned to callers
    txOwner,    \* the thread whose Begin opened the sql.Tx in r.tx (0: none)
    dbRows,     \* the committed rows: what r.db reads and writes
    txRows,     \* the rows as the open transaction sees them
    handle,     \* per thread: what the write runs on: 0 (r.db) or a sql.Tx handle
    scn,        \* progress of the Begin/Insert/Commit|Rollback/Get scenario
    \* ---- Table.DDL as a function run repeatedly ----
    ddlIn,      \* the model handed to DDL
    ddlOut,     \* the results of the runs of DDL made so far
    \* ---- Field.AsValue as a function ----
    avIn,       \* the field's kind and the literal handed to AsValue
    avOut       \* what AsValue returned (or NoValue before)

tableVars == <<tbl, last, prev, nops>>
pkVars == <<pkIn, pkOut>>
clientVars == <<pc, call, ret, stateLock, writerLock, tx, nextTx, tokens,
                txOwner, dbRows, txRows, handle, scn>>
ddlVars == <<ddlIn, ddlOut>>
avVars == <<avIn, avOut>>
auxVars == <<ddlVars, avVars>>
vars == <<tableVars, pkVars, clientVars, auxVars>>

(***************************************************************************)
(* Bounds.                                                                 *)
(***************************************************************************)
\* Table calls made in one behaviour of SpecTable.
MaxOps == 2
\* Threads calling the client in parallel.
NumThreads == 2
\* sql.Tx handles opened in one behaviour of Spec.
MaxTx == 2
\* Runs of Table.DDL on one model in one behaviour of SpecDDL.
MaxRuns == 2

(***************************************************************************)
(* Go strings used as values.                                              *)
(***************************************************************************)
str_empty == <<>>
str_a == <<97>>
str_b == <<98>>
str_k == <<107>>
str_ab == <<97, 98>>
str_bk == <<98, 107>>
str_p == <<112>>
str_q == <<113>>
str_x == <<120>>
str_y == <<121>>

(***************************************************************************)
(* Tag options. A tag is the comma-separated option list; hasOpt matches   *)
(* whole options, UniqueRegex and FkRegex match the two shaped ones.       *)
(***************************************************************************)
Opt(k) == [kw |-> k, a |-> "", b |-> ""]
OptUnique(g) == [kw |-> "unique", a |-> g, b |-> ""]
OptFk(t, f) == [kw |-> "fk", a |-> t, b |-> f]

hasOpt(f, name) ==
    \E i \in DOMAIN f.Tag : f.Tag[i] = Opt(name)

Pk(f) == hasOpt(f, "pk")

Key(f) == hasOpt(f, "key")

Virtual(f) == hasOpt(f, "virtual")

\* (variant: the const option is not looked at)
MutableNoConst(f) == ~(Pk(f) \/ Key(f) \/ Virtual(f))
Mutable(f) ==
    IF Pk(f) \/ Key(f) \/ Virtual(f) THEN FALSE ELSE ~hasOpt(f, "const")

\* The unique(G) groups of a field, in tag order.
Unique(f) ==
    LET idx == SelectSeq([i \in DOMAIN f.Tag |-> i],
                         LAMBDA i : f.Tag[i].kw = "unique")
    IN [j \in DOMAIN idx |-> f.Tag[idx[j]].a]

\* The first fk:T(F) option of a field, or NoFk.
NoFk == [Table |-> "", Field |-> ""]
Fk(f) ==
    IF \E i \in DOMAIN f.Tag : f.Tag[i].kw = "fk"
    THEN LET i == CHOOSE i \in DOMAIN f.Tag :
                      /\ f.Tag[i].kw = "fk"
                      /\ \A j \in DOMAIN f.Tag : f.Tag[j].kw = "fk" => i <= j
         IN [Table |-> f.Tag[i].a, Field |-> f.Tag[i].b]
    ELSE NoFk

(***************************************************************************)
(* JSON text of the composite values the model uses: slices of one-digit   *)
(* ints, maps from a one-byte string to a one-digit int, and the struct    *)
(* {X int}.  encoding/json writes them without spaces.                     *)
(***************************************************************************)
RECURSIVE JoinDigits(_)
JoinDigits(s) ==
    IF s = <<>> THEN <<>>
    ELSE <<48 + s[1]>> \o (IF Len(s) > 1 THEN <<44>> \o JoinDigits(Tail(s)) ELSE <<>>)

MarshalSlice(v) == <<91>> \o JoinDigits(v.elems) \o <<93>>

RECURSIVE JoinEntries(_)
JoinEntries(kv) ==
    IF kv = <<>> THEN <<>>
    ELSE <<34, kv[1][1], 34, 58, 48 + kv[1][2]>>
         \o (IF Len(kv) > 1 THEN <<44>> \o JoinEntries(Tail(kv)) ELSE <<>>)

MarshalMap(v) == <<123>> \o JoinEntries(v.kv) \o <<125>>

MarshalStruct(v) == <<123, 34, 88, 34, 58, 48 + v.X, 125>>

\* json.Unmarshal into a fresh slice: the result is never the nil slice.
UnmarshalSlice(t) ==
    IF Len(t) >= 2 /\ t[1] = 91 /\ t[Len(t)] = 93
    THEN [ok |-> TRUE,
          v |-> [nil |-> FALSE,
                 elems |-> [i \in 1..((Len(t) - 1) \div 2) |-> t[2 * i] - 48]]]
    ELSE [ok |-> FALSE, v |-> [nil |-> TRUE, elems |-> <<>>]]

\* json.Unmarshal into a fresh map: the result is never the nil map.
UnmarshalMap(t) ==
    IF Len(t) >= 2 /\ t[1] = 123 /\ t[Len(t)] = 125
    THEN [ok |-> TRUE,
          v |-> [nil |-> FALSE,
                 kv |-> [i \in 1..((Len(t) - 1) \div 6) |->
                            <<t[6 * i - 3], t[6 * i] - 48>>]]]
    ELSE [ok |-> FALSE, v |-> [nil |-> TRUE, kv |-> <<>>]]

UnmarshalStruct(t) ==
    IF Len(t) = 7 /\ t[1] = 123 /\ t[7] = 125
    THEN [ok |-> TRUE, v |-> [X |-> t[6] - 48]]
    ELSE [ok |-> FALSE, v |-> [X |-> 0]]

(***************************************************************************)
(* Field: one column of one record, with its two staging cells.            *)
(***************************************************************************)
IntKind(k) == k \in {"Bool", "Int"}

\* (variant: a nil slice or map is staged as JSON null)
PullNilAsNull(f) ==
    CASE f.Kind = "Struct" -> [f EXCEPT !.string = MarshalStruct(f.Value)]
      [] f.Kind = "Slice" ->
            [f EXCEPT !.string = IF ~f.Value.nil THEN MarshalSlice(f.Value)
                                 ELSE <<110, 117, 108, 108>>]
      [] f.Kind = "Map" ->
            [f EXCEPT !.string = IF ~f.Value.nil THEN MarshalMap(f.Value)
                                 ELSE <<110, 117, 108, 108>>]
      [] f.Kind = "String" -> [f EXCEPT !.string = f.Value]
      [] f.Kind = "Bool" -> IF f.Value THEN [f EXCEPT !.int = 1] ELSE f
      [] f.Kind = "Int" -> [f EXCEPT !.int = f.Value]
      [] OTHER -> f
\* Pull: stage the live value. The field after the call.
Pull(f) ==
    CASE f.Kind = "Struct" -> [f EXCEPT !.string = MarshalStruct(f.Value)]
      [] f.Kind = "Slice" ->
            [f EXCEPT !.string = IF ~f.Value.nil THEN MarshalSlice(f.Value)
                                 ELSE <<91, 93>>]
      [] f.Kind = "Map" ->
            [f EXCEPT !.string = IF ~f.Value.nil THEN MarshalMap(f.Value)
                                 ELSE <<123, 125>>]
      [] f.Kind = "String" -> [f EXCEPT !.string = f.Value]
      [] f.Kind = "Bool" -> IF f.Value THEN [f EXCEPT !.int = 1] ELSE f
      [] f.Kind = "Int" -> [f EXCEPT !.int = f.Value]
      [] OTHER -> f

\* What Pull returns: the staging cell of the field's kind (nil otherwise).
Pulled(f) ==
    IF IntKind(f.Kind) THEN Pull(f).int ELSE Pull(f).string

\* Ptr: the staging cell Scan writes: "int" or "string".
Ptr(f) == IF IntKind(f.Kind) THEN "int" ELSE "string"

\* Push: write the staging cell to the live value. The field after the call.
Push(f) ==
    CASE f.Kind = "Struct" ->
            IF Len(f.string) = 0 THEN f
            ELSE IF UnmarshalStruct(f.string).ok
                 THEN [f EXCEPT !.Value = UnmarshalStruct(f.string).v]
                 ELSE f
      [] f.Kind = "Slice" ->
            IF Len(f.string) = 0 THEN f
            ELSE IF UnmarshalSlice(f.string).ok
                 THEN [f EXCEPT !.Value = UnmarshalSlice(f.string).v]
                 ELSE f
      [] f.Kind = "Map" ->
            IF Len(f.string) = 0 THEN f
            ELSE IF UnmarshalMap(f.string).ok
                 THEN [f EXCEPT !.Value = UnmarshalMap(f.string).v]
                 ELSE f
      [] f.Kind = "String" -> [f EXCEPT !.Value = f.string]
      [] f.Kind = "Bool" -> [f EXCEPT !.Value = (f.int # 0)]
      [] f.Kind = "Int" -> [f EXCEPT !.Value = f.int]
      [] OTHER -> f

\* Param: the field is bound as the named parameter :Name.
Param(f) == [f EXCEPT !.isParam = TRUE]

(***************************************************************************)
(* Table: field lists.  A model is the sequence of its struct fields, each *)
(* [Name, Tag, Kind, Value]; the model types used here are flat and every  *)
(* field carries a tag, so Fields yields one Field per struct field, in    *)
(* declaration order, with zeroed staging cells.                           *)
(***************************************************************************)
Fields(model) ==
    [i \in DOMAIN model |->
        [Name |-> model[i].Name, Tag |-> model[i].Tag, Kind |-> model[i].Kind,
         Value |-> model[i].Value, string |-> <<>>, int |-> 0, isParam |-> FALSE]]

\* The model as the fields' live values leave it (a Field refers to its cell).
ModelOf(fields) ==
    [i \in DOMAIN fields |->
        [Name |-> fields[i].Name, Tag |-> fields[i].Tag, Kind |-> fields[i].Kind,
         Value |-> fields[i].Value]]

MutableFields(fields) == SelectSeq(fields, Mutable)

KeyFields(fields) == SelectSeq(fields, Key)

RealFields(fields) == SelectSeq(fields, LAMBDA f : ~Virtual(f))

\* Index of the first pk field, 0 when there is none (PkField returns nil).
PkIndex(fields) ==
    IF \E i \in DOMAIN fields : Pk(fields[i])
    THEN CHOOSE i \in DOMAIN fields :
            Pk(fields[i]) /\ \A j \in DOMAIN fields : Pk(fields[j]) => i <= j
    ELSE 0

PkField(fields) == fields[PkIndex(fields)]

(***************************************************************************)
(* SetPk.                                                                  *)
(***************************************************************************)
\* binary.Write(bfr, binary.BigEndian, n) of an int64: 8 bytes, two's complement.
RECURSIVE BigEndian(_, _)
BigEndian(n, k) ==
    IF k = 0 THEN <<>> ELSE BigEndian(n \div 256, k - 1) \o <<n % 256>>

\* The bytes one key field writes to the hash.
HashBytes(f) ==
    CASE f.Kind = "String" -> Pull(f).string
      [] IntKind(f.Kind) -> BigEndian(Pull(f).int, 8)
      [] OTHER -> <<>>

\* The bytes written to the hash, key field after key field.
RECURSIVE HashInput(_)
HashInput(keys) ==
    IF keys = <<>> THEN <<>> ELSE HashBytes(keys[1]) \o HashInput(Tail(keys))

\* hex.EncodeToString(sha1(bytes)): the digest is modelled by an injective,
\* never empty encoding of the hashed bytes (byte 0 does not start any string
\* a model carries).
Sha1Hex(bytes) == <<0>> \o bytes

\* SetPk: the fields after the call, and the error returned.
SetPk(fields) ==
    LET i == PkIndex(fields) IN
    IF i = 0 THEN [fields |-> fields, err |-> "nil"]
    ELSE IF fields[i].Kind # "String"
    THEN [fields |-> fields, err |-> "GenPkTypeErr"]
    ELSE IF Pull(fields[i]).string # <<>>
    THEN [fields |-> [fields EXCEPT ![i] = Pull(fields[i])], err |-> "nil"]
    ELSE LET pulled == [j \in DOMAIN fields |->
                          IF j = i \/ Key(fields[j]) THEN Pull(fields[j])
                          ELSE fields[j]]
             digest == Sha1Hex(HashInput(KeyFields(fields)))
         IN [fields |-> [pulled EXCEPT ![i] =
                            Push([pulled[i] EXCEPT !.string = digest])],
             err |-> "nil"]

(***************************************************************************)
(* SQL statements, as the templates render them: the statement kind, the   *)
(* columns named and the parameters bound.  Rendering a statement calls    *)
(* Param on the fields it binds; Params then passes the pulled value of    *)
(* every field so marked, by name.                                         *)
(***************************************************************************)
Names(fields) == [i \in DOMAIN fields |-> fields[i].Name]

\* The template calls Param on the fields at the indexes `bound`.
MarkParams(fields, bound) ==
    [i \in DOMAIN fields |->
        IF i \in bound THEN Param(fields[i]) ELSE fields[i]]

\* insertSQL: columns and placeholders are the real fields.
insertSQL(fields) ==
    [sql |-> [kind |-> "INSERT", cols |-> Names(RealFields(fields)), pk |-> ""],
     fields |-> MarkParams(fields, {i \in DOMAIN fields : ~Virtual(fields[i])})]

\* updateSQL: SET the mutable fields WHERE pk = :pk.
updateSQL(fields) ==
    [sql |-> [kind |-> "UPDATE", cols |-> Names(MutableFields(fields)),
              pk |-> PkField(fields).Name],
     fields |-> MarkParams(fields, {i \in DOMAIN fields : Mutable(fields[i])} \cup {PkIndex(fields)})]

\* deleteSQL: WHERE pk = :pk.
deleteSQL(fields) ==
    [sql |-> [kind |-> "DELETE", cols |-> <<>>, pk |-> PkField(fields).Name],
     fields |-> MarkParams(fields, {PkIndex(fields)})]

\* getSQL: project every field (virtual ones too) WHERE pk = :pk.
getSQL(fields) ==
    [sql |-> [kind |-> "SELECT", cols |-> Names(fields), pk |-> PkField(fields).Name],
     fields |-> MarkParams(fields, {PkIndex(fields)})]

\* Params: name -> pulled value, for the fields bound as parameters.
Params(fields) ==
    LET bound == {i \in DOMAIN fields : fields[i].isParam}
    IN [n \in {fields[i].Name : i \in bound} |->
            Pulled(fields[CHOOSE i \in bound : fields[i].Name = n])]

(***************************************************************************)
(* The database, as the driver presents it.  A table is a set of rows; a   *)
(* row holds the cells of the columns CREATE TABLE declared (the real      *)
(* fields) and the rowid SQLite keeps for it.  The schema is what DDL      *)
(* renders for the model: the PRIMARY KEY column, the UNIQUE groups and    *)
(* the FOREIGN KEY references.                                              *)
(***************************************************************************)
\* The names of the fields carrying unique(g), in field order.
UniqueGroup(fields, g) ==
    Names(SelectSeq(fields, LAMBDA f : \E j \in DOMAIN Unique(f) : Unique(f)[j] = g))

Schema(model) ==
    LET fields == Fields(model)
        real == RealFields(fields)
        groups == UNION {{Unique(fields[i])[j] : j \in DOMAIN Unique(fields[i])} :
                            i \in DOMAIN fields}
    IN [cols |-> Names(real),
        pk |-> PkField(fields).Name,
        unique |-> {{UniqueGroup(fields, g)[k] : k \in DOMAIN UniqueGroup(fields, g)} :
                        g \in groups},
        fk |-> {[col |-> fields[i].Name, ref |-> Fk(fields[i])] :
                    i \in {j \in DOMAIN fields : Fk(fields[j]) # NoFk}}]

\* The keys present in the table the model's fk refers to.
ParentKeys == {str_p}

\* Driver failures that are not constraint violations (sqlite3.ErrIoErr).
Faults == {"none", "ErrIoErr"}

NextRowid(rows) ==
    IF rows = {} THEN 1
    ELSE 1 + (CHOOSE n \in {r.rowid : r \in rows} : \A r \in rows : r.rowid <= n)

\* The constraint a row with `cells` violates beside the rows `others`, or "".
Violated(others, schema, cells) ==
    IF \E r \in others : r.cells[schema.pk] = cells[schema.pk] THEN "PRIMARYKEY"
    ELSE IF \E g \in schema.unique : \E r \in others :
                \A c \in g : r.cells[c] = cells[c] THEN "UNIQUE"
    ELSE IF \E k \in schema.fk : cells[k.col] \notin ParentKeys THEN "FOREIGNKEY"
    ELSE ""

SeqRange(q) == {q[i] : i \in DOMAIN q}

\* Exec of a statement: rows after, the error (sqlite3.Error.Code), the
\* extended code of a constraint violation, and RowsAffected.
ExecInsert(rows, schema, sql, params, fault) ==
    LET cells == [c \in SeqRange(sql.cols) |-> params[c]]
        v == Violated(rows, schema, cells)
    IN IF fault # "none" THEN [rows |-> rows, err |-> fault, ext |-> "", n |-> 0]
       ELSE IF v # "" THEN [rows |-> rows, err |-> "ErrConstraint", ext |-> v, n |-> 0]
       ELSE [rows |-> rows \cup {[rowid |-> NextRowid(rows), cells |-> cells]},
             err |-> "nil", ext |-> "", n |-> 1]

ExecUpdate(rows, schema, sql, params, fault) ==
    LET hit == {r \in rows : r.cells[sql.pk] = params[sql.pk]}
        set == SeqRange(sql.cols)
        new(r) == [r EXCEPT !.cells = [c \in DOMAIN r.cells |->
                                          IF c \in set THEN params[c] ELSE r.cells[c]]]
        bad == {Violated(rows \ hit, schema, new(r).cells) : r \in hit} \ {""}
    IN IF fault # "none" THEN [rows |-> rows, err |-> fault, ext |-> "", n |-> 0]
       ELSE IF set = {} THEN [rows |-> rows, err |-> "ErrError", ext |-> "", n |-> 0]
       ELSE IF bad # {}
       THEN [rows |-> rows, err |-> "ErrConstraint", ext |-> CHOOSE b \in bad : TRUE,
             n |-> 0]
       ELSE [rows |-> (rows \ hit) \cup {new(r) : r \in hit},
             err |-> "nil", ext |-> "", n |-> Cardinality(hit)]

ExecDelete(rows, schema, sql, params, fault) ==
    LET hit == {r \in rows : r.cells[sql.pk] = params[sql.pk]}
    IN IF fault # "none" THEN [rows |-> rows, err |-> fault, ext |-> "", n |-> 0]
       ELSE [rows |-> rows \ hit, err |-> "nil", ext |-> "", n |-> Cardinality(hit)]

Exec(rows, schema, sql, params, fault) ==
    CASE sql.kind = "INSERT" -> ExecInsert(rows, schema, sql, params, fault)
      [] sql.kind = "UPDATE" -> ExecUpdate(rows, schema, sql, params, fault)
      [] sql.kind = "DELETE" -> ExecDelete(rows, schema, sql, params, fault)

\* sql.ErrNoRows, which the package names NotFound.
NotFound == "ErrNoRows"

\* A column of a row: a declared column, or the rowid under the name RowId
\* (SQLite resolves rowid case-insensitively); any other name is an error.
HasColumn(schema, c) == c \in SeqRange(schema.cols) \/ c = "RowId"
Column(r, c) == IF c \in DOMAIN r.cells THEN r.cells[c] ELSE r.rowid

\* QueryRow of a SELECT ... WHERE pk = :pk, then Row.Scan: the cells by column.
QueryRow(rows, schema, sql, params) ==
    LET hit == {r \in rows : r.cells[sql.pk] = params[sql.pk]}
    IN IF \E c \in SeqRange(sql.cols) : ~HasColumn(schema, c)
       THEN [err |-> "ErrError", cells |-> <<>>]
       ELSE IF hit = {} THEN [err |-> NotFound, cells |-> <<>>]
       ELSE LET r == CHOOSE r \in hit : TRUE
            IN [err |-> "nil", cells |-> [c \in SeqRange(sql.cols) |-> Column(r, c)]]

(***************************************************************************)
(* Table operations.  Each yields the rows after, the caller's model after *)
(* (SetPk and scan write into it), the error returned and the statements   *)
(* sent to the driver; drv is the driver's answer to the first statement.  *)
(***************************************************************************)
\* scan: Pull every field, Scan into the staging cells, Push when Scan succeeded.
scan(row, fields) ==
    LET pulled == [i \in DOMAIN fields |-> Pull(fields[i])]
        staged(f) == IF Ptr(f) = "int" THEN [f EXCEPT !.int = row.cells[f.Name]]
                     ELSE [f EXCEPT !.string = row.cells[f.Name]]
    IN IF row.err = "nil"
       THEN [fields |-> [i \in DOMAIN fields |-> Push(staged(pulled[i]))], err |-> "nil"]
       ELSE [fields |-> pulled, err |-> row.err]

TableUpdate(rows, model, fault) ==
    LET fields == SetPk(Fields(model)).fields
        q == updateSQL(fields)
        r == Exec(rows, Schema(model), q.sql, Params(q.fields), fault)
    IN [rows |-> r.rows, model |-> ModelOf(fields), stmts |-> <<"UPDATE">>,
        drv |-> [err |-> r.err, ext |-> r.ext],
        err |-> IF r.err # "nil" THEN r.err
                ELSE IF r.n = 0 THEN NotFound ELSE "nil"]

\* (variant: a constraint violation is returned, not retried as Update)
TableInsertNoRetry(rows, model, fault) ==
    LET fields == SetPk(Fields(model)).fields
        q == insertSQL(fields)
        r == Exec(rows, Schema(model), q.sql, Params(q.fields), fault)
    IN [rows |-> r.rows, model |-> ModelOf(fields), stmts |-> <<"INSERT">>,
        drv |-> [err |-> r.err, ext |-> r.ext], err |-> r.err]
TableInsert(rows, model, fault) ==
    LET fields == SetPk(Fields(model)).fields
        q == insertSQL(fields)
        r == Exec(rows, Schema(model), q.sql, Params(q.fields), fault)
    IN IF r.err = "ErrConstraint"
       THEN LET u == TableUpdate(rows, ModelOf(fields), "none")
            IN [u EXCEPT !.stmts = <<"INSERT">> \o u.stmts,
                         !.drv = [err |-> r.err, ext |-> r.ext]]
       ELSE [rows |-> r.rows, model |-> ModelOf(fields), stmts |-> <<"INSERT">>,
             drv |-> [err |-> r.err, ext |-> r.ext], err |-> r.err]

TableDelete(rows, model, fault) ==
    LET fields == SetPk(Fields(model)).fields
        q == deleteSQL(fields)
        r == Exec(rows, Schema(model), q.sql, Params(q.fields), fault)
    IN [rows |-> r.rows, model |-> ModelOf(fields), stmts |-> <<"DELETE">>,
        drv |-> [err |-> r.err, ext |-> r.ext], err |-> r.err]

TableGet(rows, model) ==
    LET fields == SetPk(Fields(model)).fields
        q == getSQL(fields)
        row == QueryRow(rows, Schema(model), q.sql, Params(q.fields))
        s == scan(row, q.fields)
    IN [rows |-> rows, model |-> ModelOf(s.fields), stmts |-> <<"SELECT">>,
        drv |-> [err |-> row.err, ext |-> ""], err |-> s.err]

(***************************************************************************)
(* The model type used and the values its records take.                    *)
(*   ID pk; Name, Kind key and unique(G); Count const; Data plain;         *)
(*   Owner fk:Parent(ID); RowId virtual; Flag bool; Tags slice; Dict map;  *)
(*   Obj struct.                                                            *)
(***************************************************************************)
Attr(n, tag, kind, v) == [Name |-> n, Tag |-> tag, Kind |-> kind, Value |-> v]

NilSlice == [nil |-> TRUE, elems |-> <<>>]
NilMap == [nil |-> TRUE, kv |-> <<>>]

BaseModel ==
    << Attr("ID", <<Opt("pk")>>, "String", str_empty),
       Attr("Name", <<Opt("key"), OptUnique("G")>>, "String", str_a),
       Attr("Kind", <<Opt("key"), OptUnique("G")>>, "String", str_k),
       Attr("Count", <<Opt("const")>>, "Int", 1),
       Attr("Data", <<>>, "String", str_x),
       Attr("Owner", <<OptFk("Parent", "ID")>>, "String", str_p),
       Attr("RowId", <<Opt("virtual")>>, "Int", 0),
       Attr("Flag", <<>>, "Bool", FALSE),
       Attr("Tags", <<>>, "Slice", NilSlice),
       Attr("Dict", <<>>, "Map", NilMap),
       Attr("Obj", <<>>, "Struct", [X |-> 0]) >>

Idx(model, name) == CHOOSE i \in DOMAIN model : model[i].Name = name
Val(model, name) == model[Idx(model, name)].Value
With(model, name, v) == [model EXCEPT ![Idx(model, name)].Value = v]

\* The records handed to Insert and Update: BaseModel and its one-field variations.
Models ==
    {BaseModel}
    \cup {With(BaseModel, "ID", v) : v \in {str_x}}
    \cup {With(With(BaseModel, "ID", str_x), "Data", v) : v \in {str_y}}
    \cup {With(BaseModel, "Name", v) : v \in {str_b}}
    \cup {With(BaseModel, "Count", v) : v \in {7}}
    \cup {With(BaseModel, "Data", v) : v \in {str_y}}
    \cup {With(BaseModel, "Owner", v) : v \in {str_q}}
    \cup {With(BaseModel, "RowId", v) : v \in {5}}
    \cup {With(BaseModel, "Flag", v) : v \in {TRUE}}
    \cup {With(BaseModel, "Tags", v) : v \in {[nil |-> FALSE, elems |-> <<>>],
                                              [nil |-> FALSE, elems |-> <<1, 2>>]}}
    \cup {With(BaseModel, "Dict", v) : v \in {[nil |-> FALSE, kv |-> <<>>],
                                              [nil |-> FALSE, kv |-> <<<<97, 1>>>>]}}
    \cup {With(BaseModel, "Obj", v) : v \in {[X |-> 1]}}

\* A freshly allocated record: every field at its zero value.
ZeroModel ==
    [i \in DOMAIN BaseModel |->
        [BaseModel[i] EXCEPT !.Value =
            CASE BaseModel[i].Kind = "String" -> <<>>
              [] BaseModel[i].Kind = "Int" -> 0
              [] BaseModel[i].Kind = "Bool" -> FALSE
              [] BaseModel[i].Kind = "Slice" -> NilSlice
              [] BaseModel[i].Kind = "Map" -> NilMap
              [] BaseModel[i].Kind = "Struct" -> [X |-> 0]]]

\* The pk a record carries after SetPk.
PkOf(model) == Val(ModelOf(SetPk(Fields(model)).fields), "ID")

\* The records handed to Get and Delete: fresh records carrying a pk.
Fresh == {With(ZeroModel, "ID", PkOf(m)) : m \in Models}

(***************************************************************************)
(* SpecTable: Table used sequentially on one table.                        *)
(***************************************************************************)
NoCall ==
    [op |-> "none", arg |-> ZeroModel, fault |-> "none", before |-> {},
     err |-> "nil", model |-> ZeroModel, stmts |-> <<>>,
     drv |-> [err |-> "nil", ext |-> ""]]

Called(op, arg, fault, res) ==
    /\ nops < MaxOps
    /\ nops' = nops + 1
    /\ tbl' = res.rows
    /\ prev' = last
    /\ last' = [op |-> op, arg |-> arg, fault |-> fault, before |-> tbl,
                err |-> res.err, model |-> res.model, stmts |-> res.stmts,
                drv |-> res.drv]

Insert ==
    \E m \in Models, fault \in Faults :
        Called("Insert", m, fault, TableInsert(tbl, m, fault))

Update ==
    \E m \in Models, fault \in Faults :
        Called("Update", m, fault, TableUpdate(tbl, m, fault))

Delete ==
    \E m \in Fresh : Called("Delete", m, "none", TableDelete(tbl, m, "none"))

Get ==
    \E m \in Fresh : Called("Get", m, "none", TableGet(tbl, m))

TableInit ==
    /\ tbl = {}
    /\ last = NoCall
    /\ prev = NoCall
    /\ nops = 0

(***************************************************************************)
(* SpecPk: SetPk applied to two records of a type whose natural key has a  *)
(* field of every kind Fields admits.                                      *)
(*   ID pk; Name, Kind string keys; Num int key; Flag bool key;            *)
(*   Tags slice key; Data plain.                                           *)
(***************************************************************************)
KeyedModel(id, name, kind, num, flag, tags) ==
    << Attr("ID", <<Opt("pk")>>, "String", id),
       Attr("Name", <<Opt("key")>>, "String", name),
       Attr("Kind", <<Opt("key")>>, "String", kind),
       Attr("Num", <<Opt("key")>>, "Int", num),
       Attr("Flag", <<Opt("key")>>, "Bool", flag),
       Attr("Tags", <<Opt("key")>>, "Slice", tags),
       Attr("Data", <<>>, "String", str_x) >>

KeyedModels ==
    {KeyedModel(id, name, kind, num, flag, tags) :
        id \in {str_empty, str_x}, name \in {str_a, str_ab}, kind \in {str_k, str_bk},
        num \in {1, -1}, flag \in BOOLEAN,
        tags \in {NilSlice, [nil |-> FALSE, elems |-> <<1>>]}}

PkInit ==
    /\ pkIn \in KeyedModels \X KeyedModels
    /\ pkOut = <<>>

PkIdle ==
    /\ pkIn = <<ZeroModel, ZeroModel>>
    /\ pkOut = <<>>

ApplySetPk ==
    /\ pkOut = <<>>
    /\ pkOut' = <<SetPk(Fields(pkIn[1])), SetPk(Fields(pkIn[2]))>>
    /\ UNCHANGED pkIn

(***************************************************************************)
(* Client: threads calling Insert/Update/Delete, Begin, Tx.Commit,         *)
(* Tx.rollback and Get on one Client.                                      *)
(***************************************************************************)
Threads == 1..NumThreads

\* The record the threads write and read: its composite fields are not nil.
ClientModel ==
    With(With(BaseModel, "Tags", [nil |-> FALSE, elems |-> <<1>>]),
         "Dict", [nil |-> FALSE, kv |-> <<>>])

ClientModels == {ClientModel, With(ClientModel, "Data", str_y)}

NoCallC == [op |-> "none", model |-> ZeroModel, token |-> 0]
NoRet == [err |-> "none", caller |-> "none", drv |-> "none", token |-> 0]
NoScn == [stage |-> "none", model |-> ZeroModel, end |-> "none",
          res |-> "none", got |-> ZeroModel]

ClientInit ==
    /\ pc = [t \in Threads |-> "idle"]
    /\ call = [t \in Threads |-> NoCallC]
    /\ ret = [t \in Threads |-> NoRet]
    /\ handle = [t \in Threads |-> 0]
    /\ stateLock = 0
    /\ writerLock = 0
    /\ tx = 0
    /\ nextTx = 1
    /\ tokens = {}
    /\ txOwner = 0
    /\ dbRows = {}
    /\ txRows = {}
    /\ scn = NoScn

WriteOps == {"Insert", "Update", "Delete"}

\* ---- entering a call: r.Lock() ----
\* A caller blocked in r.Lock() has done nothing yet: the call and its
\* argument appear with the state mutex acquired.
StartWrite(t) ==
    /\ pc[t] = "idle"
    /\ stateLock = 0
    /\ stateLock' = t
    /\ \E op \in WriteOps, m \in ClientModels :
          call' = [call EXCEPT ![t] = [op |-> op, model |-> m, token |-> 0]]
    /\ pc' = [pc EXCEPT ![t] = "check"]
    /\ UNCHANGED <<ret, handle, writerLock, tx, nextTx, tokens, txOwner,
                   dbRows, txRows, scn>>

StartBegin(t) ==
    /\ pc[t] = "idle"
    /\ stateLock = 0
    /\ nextTx <= MaxTx
    /\ stateLock' = t
    /\ call' = [call EXCEPT ![t] = [op |-> "Begin", model |-> ZeroModel, token |-> 0]]
    /\ pc' = [pc EXCEPT ![t] = "wlock"]
    /\ UNCHANGED <<ret, handle, writerLock, tx, nextTx, tokens, txOwner,
                   dbRows, txRows, scn>>

\* Tx.Commit or Tx.rollback on a token some Begin returned.
StartEnd(t) ==
    /\ pc[t] = "idle"
    /\ stateLock = 0
    /\ stateLock' = t
    /\ \E op \in {"Commit", "Rollback"}, k \in tokens :
          call' = [call EXCEPT ![t] = [op |-> op, model |-> ZeroModel, token |-> k]]
    /\ pc' = [pc EXCEPT ![t] = "validate"]
    /\ UNCHANGED <<ret, handle, writerLock, tx, nextTx, tokens, txOwner,
                   dbRows, txRows, scn>>

\* ---- Insert/Update/Delete: if r.tx == nil, lock the writer mutex and use
\* r.db, else use r.tx ----
\* (variant: the writer mutex is not taken for a write outside a transaction)
WriteTargetNoLock(txv) == [lock |-> FALSE, handle |-> txv]
\* (variant: the write always goes to r.db)
WriteTargetDb(txv) == [lock |-> txv = 0, handle |-> 0]
WriteTarget(txv) == [lock |-> txv = 0, handle |-> txv]

Check(t) ==
    /\ pc[t] = "check"
    /\ handle' = [handle EXCEPT ![t] = WriteTarget(tx).handle]
    /\ pc' = [pc EXCEPT ![t] = IF WriteTarget(tx).lock THEN "wlock" ELSE "exec"]
    /\ UNCHANGED <<call, ret, stateLock, writerLock, tx, nextTx, tokens, txOwner,
                   dbRows, txRows, scn>>

\* ---- r.mutex.Lock(), by a write or by Begin ----
WLock(t) ==
    /\ pc[t] = "wlock"
    /\ writerLock = 0
    /\ writerLock' = t
    /\ pc' = [pc EXCEPT ![t] = IF call[t].op = "Begin" THEN "begin" ELSE "exec"]
    /\ UNCHANGED <<call, ret, handle, stateLock, tx, nextTx, tokens, txOwner,
                   dbRows, txRows, scn>>

\* ---- the write statement runs (pc = "exec" while it does) and returns ----
TableCall(op, rows, m) ==
    CASE op = "Insert" -> TableInsert(rows, m, "none")
      [] op = "Update" -> TableUpdate(rows, m, "none")
      [] op = "Delete" -> TableDelete(rows, m, "none")

\* The scenario after a write: an Insert that adds an absent row inside the
\* transaction just begun continues it, any other write ends it.
ScnWrite(t, res) ==
    IF /\ scn.stage = "begun"
       /\ call[t].op = "Insert"
       /\ res.err = "nil"
       /\ res.stmts = <<"INSERT">>
       /\ \A r \in dbRows : r.cells["ID"] # Val(res.model, "ID")
    THEN [scn EXCEPT !.stage = "inserted", !.model = res.model]
    ELSE NoScn

ExecDone(t) ==
    /\ pc[t] = "exec"
    /\ LET rows == IF handle[t] = 0 THEN dbRows ELSE txRows
           res == TableCall(call[t].op, rows, call[t].model)
       IN /\ IF handle[t] = 0
             THEN dbRows' = res.rows /\ UNCHANGED txRows
             ELSE txRows' = res.rows /\ UNCHANGED dbRows
          /\ ret' = [ret EXCEPT ![t] = [NoRet EXCEPT !.err = res.err,
                                                      !.caller = res.err]]
          /\ scn' = ScnWrite(t, res)
    /\ pc' = [pc EXCEPT ![t] = IF handle[t] = 0 THEN "wunlock" ELSE "unlock"]
    /\ UNCHANGED <<call, handle, stateLock, writerLock, tx, nextTx, tokens, txOwner>>

\* deferred r.mutex.Unlock() of a write outside a transaction
WUnlock(t) ==
    /\ pc[t] = "wunlock"
    /\ writerLock' = 0
    /\ pc' = [pc EXCEPT ![t] = "unlock"]
    /\ UNCHANGED <<call, ret, handle, stateLock, tx, nextTx, tokens, txOwner,
                   dbRows, txRows, scn>>

\* ---- Begin: r.db.Begin() ----
BeginOk(t) ==
    /\ pc[t] = "begin"
    /\ tx' = nextTx
    /\ nextTx' = nextTx + 1
    /\ txOwner' = t
    /\ txRows' = dbRows
    /\ ret' = [ret EXCEPT ![t] = [NoRet EXCEPT !.err = "nil", !.caller = "nil",
                                               !.drv = "nil", !.token = nextTx]]
    /\ scn' = [NoScn EXCEPT !.stage = "begun"]
    /\ pc' = [pc EXCEPT ![t] = "unlock"]
    /\ UNCHANGED <<call, handle, stateLock, writerLock, tokens, dbRows>>

\* r.db.Begin() fails: the error is returned (the writer mutex stays locked).
BeginFail(t) ==
    /\ pc[t] = "begin"
    /\ ret' = [ret EXCEPT ![t] = [NoRet EXCEPT !.err = "ErrIoErr",
                                               !.caller = "ErrIoErr",
                                               !.drv = "ErrIoErr"]]
    /\ pc' = [pc EXCEPT ![t] = "unlock"]
    /\ UNCHANGED <<call, handle, stateLock, writerLock, tx, nextTx, tokens, txOwner,
                   dbRows, txRows, scn>>

\* ---- commit / rollback ----
\* (variant: only r.tx == nil is tested)
TxValidNilOnly(txv, ref) == txv # 0
\* The token references the transaction in flight: !(r.tx == nil || r.tx != tx.ref).
TxValid(txv, ref) == ~(txv = 0 \/ txv # ref)

\* What the caller of Tx.Commit / Tx.rollback receives, given what
\* Client.commit / Client.rollback returned: Tx.rollback returns nothing.
TxReturn(op, err) == IF op = "Commit" THEN err ELSE "none"

Validate(t) ==
    /\ pc[t] = "validate"
    /\ IF TxValid(tx, call[t].token)
       THEN /\ pc' = [pc EXCEPT ![t] = "finish"]
            /\ UNCHANGED ret
       ELSE /\ pc' = [pc EXCEPT ![t] = "unlock"]
            /\ ret' = [ret EXCEPT ![t] =
                          [NoRet EXCEPT !.err = "TxInvalidError",
                                        !.caller = TxReturn(call[t].op,
                                                            "TxInvalidError")]]
    /\ UNCHANGED <<call, handle, stateLock, writerLock, tx, nextTx, tokens, txOwner,
                   dbRows, txRows, scn>>

\* r.tx.Commit() / r.tx.Rollback() in the driver, succeeding or failing.
Finish(t) ==
    /\ pc[t] = "finish"
    /\ \E drv \in {"nil", "ErrIoErr"} :
          /\ ret' = [ret EXCEPT ![t] =
                        [NoRet EXCEPT !.err = drv, !.drv = drv,
                                      !.caller = TxReturn(call[t].op, drv)]]
          /\ dbRows' = IF call[t].op = "Commit" /\ drv = "nil" THEN txRows ELSE dbRows
          /\ scn' = IF scn.stage = "inserted" /\ drv = "nil"
                    THEN [scn EXCEPT !.stage = "ended", !.end = call[t].op]
                    ELSE NoScn
    /\ txRows' = {}
    /\ pc' = [pc EXCEPT ![t] = "release"]
    /\ UNCHANGED <<call, handle, stateLock, writerLock, tx, nextTx, tokens, txOwner>>

\* the deferred function: r.mutex.Unlock() ...
ReleaseWriter(t) ==
    /\ pc[t] = "release"
    /\ writerLock' = 0
    /\ pc' = [pc EXCEPT ![t] = "clear"]
    /\ UNCHANGED <<call, ret, handle, stateLock, tx, nextTx, tokens, txOwner,
                   dbRows, txRows, scn>>

\* ... then r.tx = nil
ClearTx(t) ==
    /\ pc[t] = "clear"
    /\ tx' = 0
    /\ txOwner' = 0
    /\ pc' = [pc EXCEPT ![t] = "unlock"]
    /\ UNCHANGED <<call, ret, handle, stateLock, writerLock, nextTx, tokens,
                   dbRows, txRows, scn>>

\* ---- deferred r.Unlock(); the call returns what ret holds ----
Unlock(t) ==
    /\ pc[t] = "unlock"
    /\ stateLock' = 0
    /\ tokens' = IF ret[t].token # 0 THEN tokens \cup {ret[t].token} ELSE tokens
    /\ pc' = [pc EXCEPT ![t] = "idle"]
    /\ ret' = [ret EXCEPT ![t] = NoRet]
    /\ handle' = [handle EXCEPT ![t] = 0]
    /\ call' = [call EXCEPT ![t] = NoCallC]
    /\ UNCHANGED <<writerLock, tx, nextTx, txOwner, dbRows, txRows, scn>>

\* ---- Get: Table{r.db}.Get(model), under no lock ----
ClientGet(t) ==
    /\ pc[t] = "idle"
    /\ \E m \in ClientModels :
          LET res == TableGet(dbRows, With(ZeroModel, "ID", PkOf(m)))
          IN scn' = IF scn.stage = "ended" /\ PkOf(m) = Val(scn.model, "ID")
                    THEN [scn EXCEPT !.stage = "got", !.res = res.err,
                                     !.got = res.model]
                    ELSE IF scn.stage = "got" THEN NoScn ELSE scn
    /\ UNCHANGED <<pc, call, ret, handle, stateLock, writerLock, tx, nextTx, tokens,
                   txOwner, dbRows, txRows>>

(***************************************************************************)
(* Table.DDL.  A statement is kept as its parts: the table DDL as the      *)
(* column definitions and the constraint clauses in the order the template *)
(* writes them, the index DDL as the column names.  Constraints collects   *)
(* the unique groups in a Go map and ranges over it: the order of that     *)
(* range is not specified by the language and is an input here.            *)
(***************************************************************************)
\* Field.Validate: a pk must be a string or an int.
FieldValidate(f) ==
    IF f.Kind \notin {"String", "Int"} /\ Pk(f) THEN "PkTypeErr" ELSE "nil"

\* Table.Validate: the first field error, or MustHavePkErr without a pk.
TableValidate(fields) ==
    IF \E i \in DOMAIN fields : FieldValidate(fields[i]) # "nil"
    THEN "PkTypeErr"
    ELSE IF PkIndex(fields) = 0 THEN "MustHavePkErr" ELSE "nil"

\* Field.DDL: name, type and constraint of the column.
FieldDDL(f) ==
    <<f.Name,
      IF IntKind(f.Kind) THEN "INTEGER" ELSE "TEXT",
      IF Pk(f) THEN "PRIMARY KEY" ELSE "NOT NULL">>

\* FK.DDL: FOREIGN KEY (col) REFERENCES table (field) ON DELETE CASCADE.
FkDDL(f) == <<"FOREIGN KEY", f.Name, Fk(f).Table, Fk(f).Field>>

\* The keys of the map `unique` Constraints builds.
UniqueGroups(fields) ==
    UNION {{Unique(fields[i])[j] : j \in DOMAIN Unique(fields[i])} : i \in DOMAIN fields}

\* Every order in which a range over a map with the keys S can yield them.
RECURSIVE MapOrders(_)
MapOrders(S) ==
    IF S = {} THEN {<<>>}
    ELSE UNION {{<<g>> \o rest : rest \in MapOrders(S \ {g})} : g \in S}

\* Constraints: the UNIQUE clauses in the order the map range yields the
\* groups, then the FOREIGN KEY clauses in field order.
Constraints(fields, order) ==
    [k \in DOMAIN order |-> <<"UNIQUE", UniqueGroup(fields, order[k])>>]
    \o [k \in DOMAIN SelectSeq(fields, LAMBDA f : Fk(f) # NoFk) |->
            FkDDL(SelectSeq(fields, LAMBDA f : Fk(f) # NoFk)[k])]

\* Table.DDL: the statements and the error.
DDL(model, order) ==
    LET fields == Fields(model)
        real == RealFields(fields)
        keys == RealFields(KeyFields(fields))
        table == [kind |-> "TABLE",
                  cols |-> [i \in DOMAIN real |-> FieldDDL(real[i])],
                  constraints |-> Constraints(fields, order)]
        index == [kind |-> "INDEX", cols |-> Names(keys), constraints |-> <<>>]
    IN IF TableValidate(fields) # "nil"
       THEN [list |-> <<>>, err |-> TableValidate(fields)]
       ELSE [list |-> IF KeyFields(fields) # <<>> THEN <<table, index>> ELSE <<table>>,
             err |-> "nil"]

\* Record types with no, one, two, three and four unique groups.
GroupedModel(ta, tb, tc, td) ==
    << Attr("ID", <<Opt("pk")>>, "String", str_empty),
       Attr("A", ta, "String", str_a),
       Attr("B", tb, "String", str_b),
       Attr("C", tc, "Int", 1),
       Attr("D", td, "String", str_x) >>

DdlModels ==
    { BaseModel,
      GroupedModel(<<Opt("key")>>, <<>>, <<>>, <<>>),
      GroupedModel(<<Opt("key"), OptUnique("G")>>, <<OptUnique("G")>>,
                   <<OptUnique("H")>>, <<OptFk("Parent", "ID")>>),
      GroupedModel(<<OptUnique("G")>>, <<OptUnique("H"), OptUnique("G")>>,
                   <<OptUnique("I")>>, <<>>),
      GroupedModel(<<OptUnique("J")>>, <<OptUnique("I")>>,
                   <<OptUnique("H")>>, <<OptUnique("G"), OptUnique("J")>>) }

DdlInit ==
    /\ ddlIn \in DdlModels
    /\ ddlOut = <<>>

DdlIdle ==
    /\ ddlIn = ZeroModel
    /\ ddlOut = <<>>

\* One run of Table.DDL on the model.
RunDDL ==
    /\ Len(ddlOut) < MaxRuns
    /\ \E order \in MapOrders(UniqueGroups(Fields(ddlIn))) :
          ddlOut' = Append(ddlOut, DDL(ddlIn, order))
    /\ UNCHANGED ddlIn

(***************************************************************************)
(* Field.AsValue.  A literal is its reflect kind and its value (s, b or n  *)
(* by kind); ptr says it was handed over by pointer.  The result is the    *)
(* value returned (none: the nil interface), the error, and whether the    *)
(* call panicked instead of returning.                                     *)
(***************************************************************************)
Lit(kind, sv, bv, nv, ptr) == [kind |-> kind, s |-> sv, b |-> bv, n |-> nv, ptr |-> ptr]
LitString(sv) == Lit("String", sv, FALSE, 0, FALSE)
LitBool(bv) == Lit("Bool", <<>>, bv, 0, FALSE)
LitInt(nv) == Lit("Int", <<>>, FALSE, nv, FALSE)
LitComposite(kind) == Lit(kind, <<>>, FALSE, 0, FALSE)
PtrTo(lit) == [lit EXCEPT !.ptr = TRUE]

NoValue == [kind |-> "none", s |-> <<>>, b |-> FALSE, n |-> 0, err |-> "nil",
            panic |-> FALSE]
Returned(kind, sv, bv, nv, err) ==
    [kind |-> kind, s |-> sv, b |-> bv, n |-> nv, err |-> err, panic |-> FALSE]
Failed(err) == Returned("none", <<>>, FALSE, 0, err)
Panicked == [NoValue EXCEPT !.panic = TRUE]

\* The digit a byte stands for in a number (0-9, a-z, A-Z), 99 for others.
DigitOf(c) ==
    IF c >= 48 /\ c <= 57 THEN c - 48
    ELSE IF c >= 97 /\ c <= 122 THEN c - 97 + 10
    ELSE IF c >= 65 /\ c <= 90 THEN c - 65 + 10
    ELSE 99

\* The value of the digits t in the base, -1 when a byte is no digit of it.
RECURSIVE ParseDigits(_, _, _)
ParseDigits(t, base, acc) ==
    IF t = <<>> THEN acc
    ELSE IF DigitOf(t[1]) >= base THEN -1
    ELSE ParseDigits(Tail(t), base, acc * base + DigitOf(t[1]))

\* strconv.ParseInt(s, 0, 64) for texts without underscores whose value fits:
\* an optional sign, then a base prefix (0x, 0b, 0o, 0) or decimal digits.
ParseInt(t) ==
    LET neg == t # <<>> /\ t[1] = 45
        body == IF t # <<>> /\ t[1] \in {43, 45} THEN Tail(t) ELSE t
        pre(cs) == Len(body) >= 3 /\ body[1] = 48 /\ body[2] \in cs
        base == IF pre({120, 88}) THEN 16
                ELSE IF pre({98, 66}) THEN 2
                ELSE IF pre({111, 79}) THEN 8
                ELSE IF Len(body) >= 2 /\ body[1] = 48 THEN 8
                ELSE 10
        digits == IF pre({120, 88, 98, 66, 111, 79}) THEN SubSeq(body, 3, Len(body))
                  ELSE IF base = 8 THEN Tail(body)
                  ELSE body
        v == IF digits = <<>> THEN -1 ELSE ParseDigits(digits, base, 0)
    IN IF v < 0 THEN [n |-> 0, err |-> "ErrSyntax"]
       ELSE [n |-> IF neg THEN 0 - v ELSE v, err |-> "nil"]

\* The texts strconv.ParseBool accepts.
BoolTrue == {<<49>>, <<116>>, <<84>>, <<84, 82, 85, 69>>, <<116, 114, 117, 101>>,
             <<84, 114, 117, 101>>}
BoolFalse == {<<48>>, <<102>>, <<70>>, <<70, 65, 76, 83, 69>>,
              <<102, 97, 108, 115, 101>>, <<70, 97, 108, 115, 101>>}
ParseBool(t) ==
    IF t \in BoolTrue THEN [b |-> TRUE, err |-> "nil"]
    ELSE IF t \in BoolFalse THEN [b |-> FALSE, err |-> "nil"]
    ELSE [b |-> FALSE, err |-> "ErrSyntax"]

\* strconv.FormatBool.
FormatBool(bv) == IF bv THEN <<116, 114, 117, 101>> ELSE <<102, 97, 108, 115, 101>>

\* INT field from a string: `n, err := strconv.ParseInt(...)` declares a new
\* err inside the case, so the error stays there and n is returned.
IntFromString(t) == Returned("Int", <<>>, FALSE, ParseInt(t).n, "nil")

\* AsValue of a literal for a field of the kind.
AsValue(fieldKind, lit) ==
    IF ~lit.ptr /\ lit.kind \in {"Struct", "Slice", "Map"}
    THEN Failed("PredicateValueErr")
    ELSE CASE fieldKind = "String" ->
                 (CASE lit.kind = "String" -> Returned("String", lit.s, FALSE, 0, "nil")
                    [] lit.kind = "Bool" ->
                          Returned("String", FormatBool(lit.b), FALSE, 0, "nil")
                    [] lit.kind = "Int" -> Panicked
                    [] OTHER -> Failed("PredicateValueErr"))
           [] fieldKind = "Bool" ->
                 (CASE lit.kind = "String" ->
                          IF ParseBool(lit.s).err # "nil"
                          THEN Failed(ParseBool(lit.s).err)
                          ELSE Returned("Bool", <<>>, ParseBool(lit.s).b, 0, "nil")
                    [] lit.kind = "Bool" -> Returned("Bool", <<>>, lit.b, 0, "nil")
                    [] lit.kind = "Int" -> Returned("Bool", <<>>, lit.n # 0, 0, "nil")
                    [] OTHER -> Failed("PredicateValueErr"))
           [] fieldKind = "Int" ->
                 (CASE lit.kind = "String" -> IntFromString(lit.s)
                    [] lit.kind = "Bool" ->
                          Returned("Int", <<>>, FALSE, IF lit.b THEN 1 ELSE 0, "nil")
                    [] lit.kind = "Int" -> Returned("Int", <<>>, FALSE, lit.n, "nil")
                    [] OTHER -> Failed("PredicateValueErr"))
           [] OTHER -> Failed("FieldTypeErr")

\* Literals: texts "7", "-3", "010", "0x1f", "abc", "", "true", "1", "0";
\* bools; ints; composites; and pointers to a text, an int and a struct.
Literals ==
    {LitString(t) : t \in {<<55>>, <<45, 51>>, <<48, 49, 48>>, <<48, 120, 49, 102>>,
                           <<97, 98, 99>>, <<>>, <<116, 114, 117, 101>>, <<49>>, <<48>>}}
    \cup {LitBool(bv) : bv \in BOOLEAN}
    \cup {LitInt(nv) : nv \in {0, 1, 7, -3}}
    \cup {LitComposite(k) : k \in {"Struct", "Slice", "Map"}}
    \cup {PtrTo(LitString(<<55>>)), PtrTo(LitInt(7)), PtrTo(LitComposite("Struct"))}

FieldKinds == {"String", "Bool", "Int", "Slice", "Map", "Struct"}

AvInit ==
    /\ avIn \in [field : FieldKinds, lit : Literals]
    /\ avOut = NoValue

AvIdle ==
    /\ avIn = [field |-> "String", lit |-> LitString(<<>>)]
    /\ avOut = NoValue

ApplyAsValue ==
    /\ avOut = NoValue
    /\ avOut' = AsValue(avIn.field, avIn.lit)
    /\ avOut' # NoValue
    /\ UNCHANGED avIn

(***************************************************************************)
(* Specifications.                                                         *)
(***************************************************************************)
Init == ClientInit /\ TableInit /\ PkIdle /\ DdlIdle /\ AvIdle

Next ==
    \/ \E t \in Threads : StartWrite(t) /\ UNCHANGED <<tableVars, pkVars, auxVars>>
    \/ \E t \in Threads : StartBegin(t) /\ UNCHANGED <<tableVars, pkVars, auxVars>>
    \/ \E t \in Threads : StartEnd(t) /\ UNCHANGED <<tableVars, pkVars, auxVars>>
    \/ \E t \in Threads : Check(t) /\ UNCHANGED <<tableVars, pkVars, auxVars>>
    \/ \E t \in Threads : WLock(t) /\ UNCHANGED <<tableVars, pkVars, auxVars>>
    \/ \E t \in Threads : ExecDone(t) /\ UNCHANGED <<tableVars, pkVars, auxVars>>
    \/ \E t \in Threads : WUnlock(t) /\ UNCHANGED <<tableVars, pkVars, auxVars>>
    \/ \E t \in Threads : BeginOk(t) /\ UNCHANGED <<tableVars, pkVars, auxVars>>
    \/ \E t \in Threads : BeginFail(t) /\ UNCHANGED <<tableVars, pkVars, auxVars>>
    \/ \E t \in Threads : Validate(t) /\ UNCHANGED <<tableVars, pkVars, auxVars>>
    \/ \E t \in Threads : Finish(t) /\ UNCHANGED <<tableVars, pkVars, auxVars>>
    \/ \E t \in Threads : ReleaseWriter(t) /\ UNCHANGED <<tableVars, pkVars, auxVars>>
    \/ \E t \in Threads : ClearTx(t) /\ UNCHANGED <<tableVars, pkVars, auxVars>>
    \/ \E t \in Threads : Unlock(t) /\ UNCHANGED <<tableVars, pkVars, auxVars>>
    \/ \E t \in Threads : ClientGet(t) /\ UNCHANGED <<tableVars, pkVars, auxVars>>

Spec == Init /\ [][Next]_vars

\* The write statement of thread t returns: the step ExecDone(t) as seen in
\* the thread's position alone.
ExecReturns(t) ==
    /\ pc[t] = "exec"
    /\ pc' = [pc EXCEPT ![t] = IF handle[t] = 0 THEN "wunlock" ELSE "unlock"]

\* The steps of a call that thread t is inside of.
Step(t) ==
    (\/ Check(t) \/ WLock(t) \/ ExecReturns(t) \/ WUnlock(t) \/ BeginOk(t)
     \/ BeginFail(t) \/ Validate(t) \/ Finish(t) \/ ReleaseWriter(t)
     \/ ClearTx(t) \/ Unlock(t))
    /\ UNCHANGED <<tableVars, pkVars, auxVars>>

\* Thread t enters Tx.Commit or Tx.rollback (it gets the state mutex).
EndCalled(t) == StartEnd(t) /\ UNCHANGED <<tableVars, pkVars, auxVars>>

InitTable == ClientInit /\ TableInit /\ PkIdle /\ DdlIdle /\ AvIdle

NextTable ==
    \/ Insert /\ UNCHANGED <<pkVars, clientVars, auxVars>>
    \/ Update /\ UNCHANGED <<pkVars, clientVars, auxVars>>
    \/ Delete /\ UNCHANGED <<pkVars, clientVars, auxVars>>
    \/ Get /\ UNCHANGED <<pkVars, clientVars, auxVars>>

SpecTable == InitTable /\ [][NextTable]_vars

InitPk == ClientInit /\ TableInit /\ PkInit /\ DdlIdle /\ AvIdle

NextPk == ApplySetPk /\ UNCHANGED <<tableVars, clientVars, auxVars>>

SpecPk == InitPk /\ [][NextPk]_vars

InitDDL == ClientInit /\ TableInit /\ PkIdle /\ DdlInit /\ AvIdle

NextDDL == RunDDL /\ UNCHANGED <<tableVars, pkVars, clientVars, avVars>>

SpecDDL == InitDDL /\ [][NextDDL]_vars

InitAsValue == ClientInit /\ TableInit /\ PkIdle /\ DdlIdle /\ AvInit

NextAsValue == ApplyAsValue /\ UNCHANGED <<tableVars, pkVars, clientVars, ddlVars>>

SpecAsValue == InitAsValue /\ [][NextAsValue]_vars

(***************************************************************************)
(* Properties of the Client (checked under Spec).                          *)
(***************************************************************************)
Executing(t) == pc[t] = "exec"

\* C1: writer serialization. At no time do two write statements execute; a
\* write outside a transaction runs on r.db with the writer mutex held by
\* its caller and no transaction open; a write inside a transaction runs on
\* the open transaction with the writer mutex held; and from a successful
\* Begin until the transaction's Commit/Rollback has run, the writer mutex
\* stays locked by that Begin.
WriterSerialization ==
    /\ Cardinality({t \in Threads : Executing(t)}) <= 1
    /\ \A t \in Threads :
          Executing(t) /\ handle[t] = 0 => writerLock = t /\ tx = 0
    /\ \A t \in Threads :
          Executing(t) /\ handle[t] # 0 => handle[t] = tx /\ writerLock # 0
    /\ (tx # 0 /\ \A t \in Threads : pc[t] # "clear") => writerLock = txOwner

\* C1 witness: a write outside a transaction is executing, after an earlier
\* transaction has come and gone.
WriterSerializationWitness ==
    \E t \in Threads : Executing(t) /\ handle[t] = 0 /\ nextTx > 1

\* C2: a write issued by a thread other than the one that called Begin is
\* never executed on the transaction handle.
TxOnlyForHolder ==
    \A t \in Threads : Executing(t) /\ handle[t] # 0 => t = txOwner

\* C3: Commit/Rollback with a token that does not reference the transaction
\* in flight (none in flight, or another one) returns TxInvalidError, and no
\* step of that call changes r.tx or the writer mutex.
InvalidTokenRejected ==
    [][\A t \in Threads :
          /\ (/\ pc[t] = "validate"
              /\ pc'[t] # "validate"
              /\ (tx = 0 \/ tx # call[t].token))
             => /\ ret'[t].err = "TxInvalidError"
                /\ pc'[t] = "unlock"
                /\ tx' = tx
                /\ writerLock' = writerLock
          /\ (/\ pc[t] = "unlock"
              /\ pc'[t] # "unlock"
              /\ ret[t].err = "TxInvalidError")
             => tx' = tx /\ writerLock' = writerLock]_vars

\* C3 witness: a second Commit on a token whose transaction is over is about
\* to return TxInvalidError while a later transaction holds the writer mutex.
InvalidTokenWitness ==
    \E t \in Threads :
        /\ pc[t] = "unlock"
        /\ call[t].op = "Commit"
        /\ ret[t].err = "TxInvalidError"
        /\ tx # 0
        /\ call[t].token < tx
        /\ writerLock # 0

\* C4: Commit/Rollback with the valid token ends with the writer mutex
\* released and r.tx cleared whether the driver succeeded or failed, and the
\* driver's error, if any, is what the caller receives.
EndReleasesAndReturns ==
    \A t \in Threads :
        (pc[t] = "unlock" /\ call[t].op \in {"Commit", "Rollback"}
            /\ ret[t].drv # "none")
        => /\ writerLock = 0
           /\ tx = 0
           /\ (ret[t].drv # "nil" => ret[t].caller = ret[t].drv)

\* The part of C4 about the locks alone.
EndReleases ==
    \A t \in Threads :
        (pc[t] = "unlock" /\ call[t].op \in {"Commit", "Rollback"}
            /\ ret[t].drv # "none")
        => writerLock = 0 /\ tx = 0

\* C5: Begin, Insert of an absent row, Rollback, Get: Get returns NotFound.
\* Begin, Insert of an absent row, Commit, Get: Get returns the inserted row.
TxVisibility ==
    scn.stage = "got" =>
        /\ scn.end = "Rollback" => scn.res = NotFound
        /\ scn.end = "Commit" =>
              /\ scn.res = "nil"
              /\ \A i \in DOMAIN scn.model :
                    ~Virtual(scn.model[i]) => scn.got[i].Value = scn.model[i].Value

\* C5 witness: the scenario has run to its Get, after a Commit.
TxVisibilityWitness ==
    scn.stage = "got" /\ scn.end = "Commit" /\ scn.res = "nil"

\* The scenario's other branch, a Get after a Rollback, is reached as well.
TxVisibilityRollbackReached ==
    scn.stage = "got" /\ scn.end = "Rollback"

\* C13: whenever an internal step of a call produced an error (here: what
\* Client.commit, Client.rollback, Begin or the Table call returned), the
\* operation the caller invoked returns a non-nil error.
NoSilentSwallowing ==
    \A t \in Threads :
        (pc[t] = "unlock" /\ ret[t].err \notin {"none", "nil"})
        => ret[t].caller \notin {"none", "nil"}

\* C14: deadlock freedom.  Every call returns under fair scheduling only if
\* the calls are never left without a possible step; in particular, when a
\* transaction is open and a thread is in Begin, waiting for the writer
\* mutex, either some call can take a step or a holder of a token can enter
\* Commit/Rollback (which is what releases the mutex the Begin waits for).
BeginDuringTxProceeds ==
    \A t \in Threads :
        (pc[t] = "wlock" /\ call[t].op = "Begin" /\ tx # 0)
        => \E u \in Threads : ENABLED Step(u) \/ ENABLED EndCalled(u)

\* C15: whenever no call is executing, the writer mutex is held if and only
\* if a transaction is in flight.
LockTxConsistent ==
    (\A t \in Threads : pc[t] = "idle") => (writerLock # 0 <=> tx # 0)

(***************************************************************************)
(* Properties of Table (checked under SpecTable): prev and last are the    *)
(* two most recent calls.                                                  *)
(***************************************************************************)
\* The call was an Insert that stored a new row.
Created(c) == c.op = "Insert" /\ c.err = "nil" /\ c.stmts = <<"INSERT">>

SameKeys(m1, m2) ==
    \A i \in DOMAIN m1 : Key(Fields(m1)[i]) => m1[i].Value = m2[i].Value

\* The value Pull stages for field i of a record.
Staged(model, i) == Pulled(Fields(model)[i])

RowOf(rows, pk) == CHOOSE r \in rows : r.cells["ID"] = pk

\* The fields the collision claims say keep the first record's value.
Keeps(f) == Pk(f) \/ Key(f) \/ hasOpt(f, "const")

\* An Insert stored a row, and the next call Inserts a different record with
\* the same natural-key values, both leaving the pk to SetPk; the second
\* record's fk names an existing parent and the driver does not fail.
Collision ==
    /\ Created(prev)
    /\ last.op = "Insert"
    /\ last.fault = "none"
    /\ Val(prev.arg, "ID") = <<>>
    /\ Val(last.arg, "ID") = <<>>
    /\ SameKeys(prev.arg, last.arg)
    /\ prev.arg # last.arg
    /\ Val(last.arg, "Owner") \in ParentKeys

\* C6 as stated: after two Inserts with the same natural keys both succeed
\* and the stored row holds the second record's values for every mutable
\* field and the first's for every pk, key, const and virtual field.
UpdateOnCollisionAsStated ==
    Collision =>
        /\ last.err = "nil"
        /\ \E r \in tbl :
              /\ r.cells["ID"] = Val(last.model, "ID")
              /\ \A i \in DOMAIN last.arg :
                    LET f == Fields(last.arg)[i]
                    IN Column(r, f.Name) =
                          IF Keeps(f) \/ Virtual(f) THEN Staged(prev.model, i)
                          ELSE Staged(last.arg, i)

\* C6 amended: both Inserts succeed, the second by an UPDATE of the first's
\* row, no row being added or otherwise changed;
\* the row holds the second record's values for every mutable field and the
\* first's for every pk, key and const field; virtual fields are no columns
\* of the row, whose rowid stays as the first Insert left it.
UpdateOnCollision ==
    Collision =>
        /\ last.err = "nil"
        /\ last.stmts = <<"INSERT", "UPDATE">>
        /\ \E r \in tbl :
              /\ r.cells["ID"] = Val(last.model, "ID")
              /\ r.rowid = RowOf(last.before, Val(prev.model, "ID")).rowid
              /\ tbl \ {r} = last.before \ {RowOf(last.before, Val(prev.model, "ID"))}
              /\ \A i \in DOMAIN last.arg :
                    LET f == Fields(last.arg)[i]
                    IN IF Virtual(f) THEN f.Name \notin DOMAIN r.cells
                       ELSE r.cells[f.Name] =
                               IF Keeps(f) THEN Staged(prev.model, i)
                               ELSE Staged(last.arg, i)

\* C6 witness: the second Insert of a record differing in a const field
\* has succeeded.
UpdateOnCollisionWitness ==
    /\ Collision
    /\ last.err = "nil"
    /\ Val(last.arg, "Count") # Val(prev.arg, "Count")

\* C7: a row exists and a record with the same unique(G) values but another
\* pk is Inserted: the Insert succeeds and the first row holds the second
\* record's mutable values.
UniqueCollisionUpdates ==
    (/\ Created(prev)
     /\ last.op = "Insert"
     /\ last.fault = "none"
     /\ last.drv.ext = "UNIQUE")
    => /\ last.err = "nil"
       /\ \E r \in tbl :
             /\ r.cells["ID"] = Val(prev.model, "ID")
             /\ \A i \in DOMAIN last.arg :
                   LET f == Fields(last.arg)[i]
                   IN ~(Keeps(f) \/ Virtual(f)) =>
                         r.cells[f.Name] = Staged(last.arg, i)

\* C8: Insert retries as Update only on a constraint violation at the
\* primary key; any other driver error of the INSERT is returned as it is
\* and no UPDATE is sent.
RetryOnlyOnPk ==
    (last.op = "Insert" /\ last.drv.err # "nil") =>
        IF last.drv.err = "ErrConstraint" /\ last.drv.ext = "PRIMARYKEY"
        THEN last.stmts = <<"INSERT", "UPDATE">>
        ELSE last.stmts = <<"INSERT">> /\ last.err = last.drv.err

\* An Insert stored a row and the next call is a Get into a freshly
\* allocated record carrying that row's pk.
InsertThenGet ==
    /\ Created(prev)
    /\ last.op = "Get"
    /\ last.arg = With(ZeroModel, "ID", Val(prev.model, "ID"))

\* C9 as stated: Insert then Get into a fresh record with the same pk yields,
\* for every tagged field, the inserted record's value.
RoundTripAsStated ==
    InsertThenGet =>
        /\ last.err = "nil"
        /\ \A i \in DOMAIN last.model : last.model[i].Value = prev.model[i].Value

\* C9 amended: the Get succeeds and yields the inserted value for every
\* field that is not virtual and not a nil slice or nil map; a nil slice or
\* map comes back empty and not nil; a virtual field comes back with what
\* the database keeps under its name (the rowid), not the inserted value.
RoundTrip ==
    InsertThenGet =>
        /\ last.err = "nil"
        /\ \A i \in DOMAIN last.model :
              LET f == Fields(prev.model)[i]
                  got == last.model[i].Value
              IN IF Virtual(f)
                 THEN got = RowOf(tbl, Val(prev.model, "ID")).rowid
                 ELSE IF f.Kind = "Slice" /\ f.Value.nil
                 THEN got = [nil |-> FALSE, elems |-> <<>>]
                 ELSE IF f.Kind = "Map" /\ f.Value.nil
                 THEN got = [nil |-> FALSE, kv |-> <<>>]
                 ELSE got = f.Value

\* C9 witness: a record with a two-element slice was inserted and read back.
RoundTripWitness ==
    /\ InsertThenGet
    /\ last.err = "nil"
    /\ Val(prev.arg, "Tags").elems = <<1, 2>>
    /\ Val(last.model, "Tags").elems = <<1, 2>>

(***************************************************************************)
(* Properties of SetPk (checked under SpecPk).                             *)
(***************************************************************************)
\* The key fields at which two records differ.
KeyDiff(m1, m2) ==
    {i \in DOMAIN m1 : Key(Fields(m1)[i]) /\ m1[i].Value # m2[i].Value}

PkAfter(k) == Val(ModelOf(pkOut[k].fields), "ID")

\* C10: with an empty pk, SetPk gives records with the same natural-key
\* values the same pk, and records differing in exactly one natural-key
\* field different pks.
PkIdempotence ==
    (/\ pkOut # <<>>
     /\ Val(pkIn[1], "ID") = <<>>
     /\ Val(pkIn[2], "ID") = <<>>)
    => /\ KeyDiff(pkIn[1], pkIn[2]) = {} => PkAfter(1) = PkAfter(2)
       /\ Cardinality(KeyDiff(pkIn[1], pkIn[2])) = 1 => PkAfter(1) # PkAfter(2)

\* The part of C10 that holds: equal keys give equal pks, and a change of one
\* string, int or bool key field changes the pk.
PkIdempotenceScalar ==
    (/\ pkOut # <<>>
     /\ Val(pkIn[1], "ID") = <<>>
     /\ Val(pkIn[2], "ID") = <<>>)
    => /\ KeyDiff(pkIn[1], pkIn[2]) = {} => PkAfter(1) = PkAfter(2)
       /\ (/\ Cardinality(KeyDiff(pkIn[1], pkIn[2])) = 1
           /\ \A i \in KeyDiff(pkIn[1], pkIn[2]) :
                 pkIn[1][i].Kind \in {"String", "Int", "Bool"})
          => PkAfter(1) # PkAfter(2)

\* C16: with an empty pk, two records whose natural-key values differ (in
\* string, int or bool key fields) get different pks from SetPk, also when
\* the string keys have the same concatenation.
PkInjective ==
    (/\ pkOut # <<>>
     /\ Val(pkIn[1], "ID") = <<>>
     /\ Val(pkIn[2], "ID") = <<>>
     /\ KeyDiff(pkIn[1], pkIn[2]) # {}
     /\ \A i \in KeyDiff(pkIn[1], pkIn[2]) :
           pkIn[1][i].Kind \in {"String", "Int", "Bool"})
    => PkAfter(1) # PkAfter(2)

\* What C16 leaves of it: the pks differ whenever the string keys, written
\* one after the other, differ or an int or bool key differs.
PkInjectiveOnConcatenation ==
    (/\ pkOut # <<>>
     /\ Val(pkIn[1], "ID") = <<>>
     /\ Val(pkIn[2], "ID") = <<>>
     /\ \/ Val(pkIn[1], "Name") \o Val(pkIn[1], "Kind")
            # Val(pkIn[2], "Name") \o Val(pkIn[2], "Kind")
        \/ Val(pkIn[1], "Num") # Val(pkIn[2], "Num")
        \/ Val(pkIn[1], "Flag") # Val(pkIn[2], "Flag"))
    => PkAfter(1) # PkAfter(2)

(***************************************************************************)
(* Properties of Table.DDL (checked under SpecDDL).                        *)
(***************************************************************************)
\* The unique groups of a record type in the order its fields first name them.
RECURSIVE Discovery(_, _)
Discovery(fields, seen) ==
    IF fields = <<>> THEN <<>>
    ELSE LET new == SelectSeq(Unique(fields[1]), LAMBDA g : g \notin seen)
             first == IF new = <<>> THEN <<>>
                      ELSE <<new[1]>> \o
                           SelectSeq(Tail(new), LAMBDA g : g # new[1])
         IN first \o Discovery(Tail(fields),
                               seen \cup {first[k] : k \in DOMAIN first})

\* The groups of the UNIQUE clauses of a table statement, in their order.
UniqueClauses(stmt) ==
    SelectSeq(stmt.constraints, LAMBDA c : c[1] = "UNIQUE")

\* C11: two runs of Table.DDL on one record type give identical statement
\* lists, and every run emits the UNIQUE clauses in group-discovery (field
\* declaration) order.
DdlDeterministic ==
    /\ \A i, j \in DOMAIN ddlOut : ddlOut[i] = ddlOut[j]
    /\ \A i \in DOMAIN ddlOut :
          ddlOut[i].err = "nil" =>
             LET disc == Discovery(Fields(ddlIn), {})
                 uc == UniqueClauses(ddlOut[i].list[1])
             IN /\ Len(uc) = Len(disc)
                /\ \A k \in DOMAIN uc : uc[k][2] = UniqueGroup(Fields(ddlIn), disc[k])

\* The part of C11 that holds: with at most one unique group the runs agree.
DdlDeterministicOneGroup ==
    Cardinality(UniqueGroups(Fields(ddlIn))) <= 1 =>
        \A i, j \in DOMAIN ddlOut : ddlOut[i] = ddlOut[j]

(***************************************************************************)
(* Properties of Field.AsValue (checked under SpecAsValue).                *)
(***************************************************************************)
\* The decimal text of an integer.
RECURSIVE DecimalDigits(_)
DecimalDigits(n) ==
    IF n < 10 THEN <<48 + n>> ELSE DecimalDigits(n \div 10) \o <<48 + (n % 10)>>

DecimalText(n) == IF n < 0 THEN <<45>> \o DecimalDigits(0 - n) ELSE DecimalDigits(n)

\* A literal the coercion table cannot turn into a value of the field's kind.
Uncoercible(field, lit) ==
    \/ field \in {"Slice", "Map", "Struct"}
    \/ lit.kind \in {"Slice", "Map", "Struct"}
    \/ field = "Int" /\ lit.kind = "String" /\ ParseInt(lit.s).err # "nil"
    \/ field = "Bool" /\ lit.kind = "String" /\ ParseBool(lit.s).err # "nil"

\* C12: AsValue always returns, either a value of the field's category as
\* the coercion table says (STRING from int: the decimal text; INT from
\* string: the parsed integer; BOOL from int: n != 0) with a nil error, or
\* PredicateValueErr; a literal that cannot be coerced never comes back as a
\* value with a nil error.
AsValueTotal ==
    avOut # NoValue =>
        LET f == avIn.field
            lit == avIn.lit
        IN /\ ~avOut.panic
           /\ avOut.err \in {"nil", "PredicateValueErr"}
           /\ avOut.err = "nil" => avOut.kind = f
           /\ (f = "String" /\ lit.kind = "Int") =>
                 avOut.err = "nil" /\ avOut.s = DecimalText(lit.n)
           /\ (f = "Int" /\ lit.kind = "String" /\ avOut.err = "nil") =>
                 avOut.n = ParseInt(lit.s).n
           /\ (f = "Bool" /\ lit.kind = "Int") =>
                 avOut.err = "nil" /\ avOut.b = (lit.n # 0)
           /\ Uncoercible(f, lit) => avOut.err # "nil"

\* The INT-from-string case of C12 alone: an unparseable text is not
\* returned as a value with a nil error.
AsValueIntFromString ==
    (avOut # NoValue /\ avIn.field = "Int" /\ avIn.lit.kind = "String"
        /\ ParseInt(avIn.lit.s).err # "nil")
    => avOut.err # "nil"

====
